---------------------------- MODULE Spec2Model ----------------------------
(***************************************************************************)
(* Model of the fetch-then-cache layer of github-stats                     *)
(* (src/hub_downloader.py, class Downloader) and of the part of            *)
(* src/hub_visualizer.py that constructs and consumes it.                  *)
(*                                                                         *)
(* The program is sequential, so every public method is one atomic action  *)
(* whose inputs are the answers of the server to the requests the method   *)
(* issues.  Text (CSV cells, logins, ISO timestamps) is a sequence of      *)
(* one-character strings, so that formatting and parsing are computed.     *)
(***************************************************************************)
EXTENDS Integers, Sequences, FiniteSets, TLC

(***************************************************************************)
(* Bounds of the model.                                                    *)
(***************************************************************************)
\* the largest number of pages a paginated source serves (the code's loop
\* is unbounded; the server is made to end by page MaxPages)
MaxPages == 3

(***************************************************************************)
(* Program constants.                                                      *)
(***************************************************************************)
TOTAL_CONTRIBUTION_FILE_NAME == "total_contributions"
WEEKLY_CONTRIBUTIONS_FILE_NAME == "weekly_contributions"
CODE_FREQUENCY_FILE_NAME == "code_frequency"
ISSUES_FILE_NAME == "issues"
STARGAZERS_FILE_NAME == "stargazers"
COMMIT_ACTIVITY_FILE_NAME == "commit_activity"

FileNames ==
    { TOTAL_CONTRIBUTION_FILE_NAME, WEEKLY_CONTRIBUTIONS_FILE_NAME,
      CODE_FREQUENCY_FILE_NAME, ISSUES_FILE_NAME, STARGAZERS_FILE_NAME,
      COMMIT_ACTIVITY_FILE_NAME }

\* the page size the pagination loops ask for
PerPage == 100

\* the (owner, repo) pair the modelled cache directory belongs to
Owner == "porsk"
Repo == "github-stats"

(***************************************************************************)
(* Text: decimal numbers and ISO dates, as Python and pandas print and     *)
(* parse them.                                                             *)
(***************************************************************************)
DigitChars == <<"0", "1", "2", "3", "4", "5", "6", "7", "8", "9">>

IsDigit(c) == \E i \in 1..10 : DigitChars[i] = c

DigitVal(c) == (CHOOSE i \in 1..10 : DigitChars[i] = c) - 1

RECURSIVE NatToText(_)
NatToText(n) ==
    IF n < 10 THEN <<DigitChars[n + 1]>>
    ELSE NatToText(n \div 10) \o <<DigitChars[(n % 10) + 1]>>

\* str(int)
IntToText(n) == IF n < 0 THEN <<"-">> \o NatToText(0 - n) ELSE NatToText(n)

RECURSIVE DigitsToNat(_)
DigitsToNat(t) ==
    IF t = <<>> THEN 0
    ELSE 10 * DigitsToNat(SubSeq(t, 1, Len(t) - 1)) + DigitVal(t[Len(t)])

AllDigits(t) == Len(t) > 0 /\ \A i \in 1..Len(t) : IsDigit(t[i])

\* what the CSV reader takes for an integer
IsIntText(t) ==
    \/ AllDigits(t)
    \/ Len(t) > 1 /\ t[1] = "-" /\ AllDigits(Tail(t))

TextToInt(t) == IF t[1] = "-" THEN 0 - DigitsToNat(Tail(t)) ELSE DigitsToNat(t)

RECURSIVE ZeroPad(_, _)
ZeroPad(t, width) == IF Len(t) >= width THEN t ELSE ZeroPad(<<"0">> \o t, width)

(***************************************************************************)
(* Cells of a table.  A cell carries its Python type: int, str or          *)
(* datetime.date.                                                          *)
(***************************************************************************)
IntCell(n) == [t |-> "int", n |-> n]
StrCell(s) == [t |-> "str", s |-> s]
DateCell(y, m, d) == [t |-> "date", y |-> y, m |-> m, d |-> d]

\* str(datetime.date): YYYY-MM-DD
DateToText(c) ==
    ZeroPad(NatToText(c.y), 4) \o <<"-">> \o ZeroPad(NatToText(c.m), 2)
        \o <<"-">> \o ZeroPad(NatToText(c.d), 2)

\* datetime.fromtimestamp(ts).date(), for a process whose local time zone is
\* UTC and ts >= 0: the civil date of day ts \div 86400 of the epoch
DateFromTimestamp(ts) ==
    LET z == (ts \div 86400) + 719468
        era == z \div 146097
        doe == z - era * 146097
        yoe == (doe - (doe \div 1460) + (doe \div 36524) - (doe \div 146096)) \div 365
        doy == doe - (365 * yoe + (yoe \div 4) - (yoe \div 100))
        mp == (5 * doy + 2) \div 153
        d == doy - ((153 * mp + 2) \div 5) + 1
        m == IF mp < 10 THEN mp + 3 ELSE mp - 9
        y == yoe + era * 400 + (IF m <= 2 THEN 1 ELSE 0)
    IN  DateCell(y, m, d)

\* datetime.strptime(text, '%Y-%m-%dT%H:%M:%SZ').date(), for a text of that
\* format: the year, month and day fields
DateFromIso(text) ==
    DateCell(DigitsToNat(SubSeq(text, 1, 4)), DigitsToNat(SubSeq(text, 6, 7)),
             DigitsToNat(SubSeq(text, 9, 10)))

(***************************************************************************)
(* Tables (pandas DataFrame) and cache files (tab separated text).         *)
(***************************************************************************)
\* DataFrame(rows, columns=columns): the default index is 0 .. n-1
DataFrame(rows, columns) ==
    [columns |-> columns, index |-> [i \in 1..Len(rows) |-> i - 1], rows |-> rows]

\* df[column] = values: a new last column
AddColumn(df, column, values) ==
    [columns |-> Append(df.columns, column),
     index |-> df.index,
     rows |-> [i \in 1..Len(df.rows) |-> Append(df.rows[i], values[i])]]

CellToText(c) ==
    CASE c.t = "int" -> IntToText(c.n)
      [] c.t = "str" -> c.s
      [] c.t = "date" -> DateToText(c)

\* df[column][i]: the cell of record i under the column of a name
CellOf(df, i, column) ==
    df.rows[i][CHOOSE j \in 1..Len(df.columns) : df.columns[j] = column]

NoFile == [present |-> FALSE, header |-> <<>>, lines |-> <<>>]

\* DataFrame.to_csv(sep='\t'): a header row whose first name (the index's) is
\* empty, then one line per record: the index, then the cells as text
ToCsv(df) ==
    [present |-> TRUE,
     header |-> <<"">> \o df.columns,
     lines |-> [i \in 1..Len(df.rows) |->
                  <<IntToText(df.index[i])>>
                      \o [j \in 1..Len(df.rows[i]) |-> CellToText(df.rows[i][j])]]]

\* the type read_csv gives column j: int64 when the file has records and every
\* cell of the column reads as an integer, else object (str)
ColumnIsInt(file, j) ==
    /\ Len(file.lines) > 0
    /\ \A i \in 1..Len(file.lines) : IsIntText(file.lines[i][j])

ParseCell(file, i, j) ==
    IF ColumnIsInt(file, j) THEN IntCell(TextToInt(file.lines[i][j]))
    ELSE StrCell(file.lines[i][j])

\* read_csv(sep='\t', index_col=0): the first column becomes the index
ReadCsv(file) ==
    [columns |-> Tail(file.header),
     index |-> [i \in 1..Len(file.lines) |-> TextToInt(file.lines[i][1])],
     rows |-> [i \in 1..Len(file.lines) |->
                 [j \in 1..(Len(file.header) - 1) |-> ParseCell(file, i, j + 1)]]]

(***************************************************************************)
(* What the API serves.  A response is its status, its JSON body (data on  *)
(* success, message on failure) and the two rate-limit headers.            *)
(***************************************************************************)
Response(status, data, message) ==
    [status |-> status, data |-> data, message |-> message,
     limit |-> "60", remaining |-> "59"]

\* requests' Response.ok: no 4xx and no 5xx status
Ok(response) == response.status < 400

OkResponse(data) == Response(200, data, "")

FailureStatuses == {401, 403, 404, 500}

Ann == <<"a", "n", "n">>
Bob == <<"b", "o", "b">>
Open == <<"o", "p", "e", "n">>
Closed == <<"c", "l", "o", "s", "e", "d">>
Iso1 ==
    <<"2", "0", "2", "0", "-", "0", "9", "-", "1", "3", "T",
      "1", "0", ":", "2", "0", ":", "3", "0", "Z">>
Iso2 ==
    <<"2", "0", "1", "9", "-", "1", "2", "-", "3", "1", "T",
      "2", "3", ":", "5", "9", ":", "5", "9", "Z">>

\* items of GET issues (of the many fields of an issue, those read and one more)
Issue(id, state, created_at) ==
    [id |-> id, state |-> state, created_at |-> created_at, title |-> "t"]

IssuePage1 == <<Issue(11, Open, Iso1), Issue(12, Closed, Iso2)>>
IssuePage2 == <<Issue(13, Open, Iso2)>>

\* items of GET stargazers with the star+json media type
Star(login, starred_at) == [user |-> [login |-> login], starred_at |-> starred_at]

StarPage1 == <<Star(Ann, Iso2), Star(Bob, Iso1)>>
StarPage2 == <<Star(Ann, Iso1)>>

\* items of GET stats/contributors
Week(w, a, d, c) == [w |-> w, a |-> a, d |-> d, c |-> c]

Contributor(login, total, weeks) ==
    [total |-> total, author |-> [login |-> login], weeks |-> weeks]

Contributors1 ==
    <<Contributor(Ann, 3, <<Week(1599955200, 5, 1, 2), Week(1600560000, 9, 0, 1)>>),
      Contributor(Bob, 1, <<Week(1599955200, 0, 4, 1)>>)>>
Contributors2 == <<Contributor(Bob, 8, <<Week(1600560000, 7, 7, 8)>>)>>

\* GET stats/code_frequency: triples [week, additions, deletions]
CodeFrequency1 == <<<<1599955200, 10, -2>>, <<1600560000, 0, -31>>>>
CodeFrequency2 == <<<<1600560000, 4, 0>>>>

\* items of GET stats/commit_activity: days[0] is Sunday
Activity(week, days, total) == [week |-> week, days |-> days, total |-> total]

\* Python's item['days'][i], whose indexes start at 0
DayAt(item, i) == item.days[i + 1]

CommitActivity1 ==
    <<Activity(1599955200, <<1, 2, 3, 4, 5, 6, 7>>, 28),
      Activity(1600560000, <<0, 9, 0, 8, 0, 0, 2>>, 19)>>
CommitActivity2 == <<Activity(1600560000, <<3, 0, 0, 1, 0, 5, 0>>, 9)>>

(***************************************************************************)
(* State.                                                                  *)
(***************************************************************************)
VARIABLES
    client,   \* the Downloader in use: its session headers and its two flags
    cache,    \* the cache directory data/<owner>/<repo> and its six files
    fetched,  \* history: per file, the table of the fetch that wrote it
    last      \* history: what the last operation did, as its caller sees it

vars == <<client, cache, fetched, last>>

NoClient ==
    [constructed |-> FALSE, token |-> "", useCache |-> FALSE, verbose |-> FALSE,
     headers |-> {}]

NoError == [kind |-> "none", message |-> <<>>]

Error(kind, message) == [kind |-> kind, message |-> message]

NoTable == [some |-> FALSE, df |-> DataFrame(<<>>, <<>>)]

Methods ==
    { "get_contributors_statistic", "get_code_frequency_statistic", "get_issues",
      "get_commit_activity", "get_stargazers" }

\* the cache file(s) of each data method
DatasetFiles(method) ==
    CASE method = "get_contributors_statistic" ->
             {TOTAL_CONTRIBUTION_FILE_NAME, WEEKLY_CONTRIBUTIONS_FILE_NAME}
      [] method = "get_code_frequency_statistic" -> {CODE_FREQUENCY_FILE_NAME}
      [] method = "get_issues" -> {ISSUES_FILE_NAME}
      [] method = "get_commit_activity" -> {COMMIT_ACTIVITY_FILE_NAME}
      [] method = "get_stargazers" -> {STARGAZERS_FILE_NAME}

(***************************************************************************)
(* Downloader: the private helpers.                                        *)
(***************************************************************************)
\* the session header set when a token is given
AuthorizationHeader(token) == <<"Authorization", "token {token}">>

SessionHeaders(token) == IF token # "" THEN {AuthorizationHeader(token)} ELSE {}

\* the headers of a request: the session's, overridden by the request's own
RequestHeaders(c, headers) ==
    headers \cup { h \in c.headers : \A g \in headers : g[1] # h[1] }

Request(c, path, headers) ==
    [owner |-> Owner, repo |-> Repo, path |-> path,
     headers |-> RequestHeaders(c, headers)]

PlainPath(endpoint) == [endpoint |-> endpoint, per_page |-> 0, page |-> 0]

PagePath(endpoint, page) == [endpoint |-> endpoint, per_page |-> PerPage, page |-> page]

NotFoundMessage == <<"Repository '", Repo, "' of user '", Owner, "' not found.">>

\* __rasie_error without its 401 branch
RaiseError_No401(response) ==
    IF response.status = 403
    THEN Error("ApiRateLimitError",
               <<"API rate limit exceeded. Try to specify an OAuth token to increase your rate limit.">>)
    ELSE IF response.status = 404
    THEN Error("NotFoundError", NotFoundMessage)
    ELSE Error("Exception", <<response.message>>)

\* __rasie_error
RaiseError(response) ==
    IF response.status = 403
    THEN Error("ApiRateLimitError",
               <<"API rate limit exceeded. Try to specify an OAuth token to increase your rate limit.">>)
    ELSE IF response.status = 404
    THEN Error("NotFoundError", NotFoundMessage)
    ELSE IF response.status = 401
    THEN Error("BadCredentialsError", <<"Bad credentials were provided for the API.">>)
    ELSE Error("Exception", <<response.message>>)

\* __call_api: one request; its JSON body, or the error raised
CallApi(c, path, headers, response) ==
    [request |-> Request(c, path, headers),
     response |-> response,
     data |-> IF Ok(response) THEN response.data ELSE <<>>,
     error |-> IF Ok(response) THEN NoError ELSE RaiseError(response)]

\* __save_cache
SaveCache(files, df, file_name) == [files EXCEPT ![file_name] = ToCsv(df)]

\* __read_cache
ReadCache(files, file_name) == ReadCsv(files[file_name])

\* __is_cache_available looking for the file without its .csv extension
IsCacheAvailable_NoExtension(files, file_name) == FALSE

\* __is_cache_available
IsCacheAvailable(files, file_name) == files[file_name].present

\* __log printing whatever the verbosity
Log_Always(c, log, text) == Append(log, text)

\* __log
Log(c, log, text) == IF c.verbose THEN Append(log, text) ELSE log

(***************************************************************************)
(* What a call of a data method amounts to: how it ended, what it          *)
(* returned, the files it left, the requests it issued with the responses  *)
(* it got, what it printed and the tables it saved.                        *)
(***************************************************************************)
Returned(value, files, calls, log, saved) ==
    [outcome |-> "returned", error |-> NoError, value |-> value, files |-> files,
     reqs |-> [i \in 1..Len(calls) |-> calls[i].request],
     resps |-> [i \in 1..Len(calls) |-> calls[i].response],
     log |-> log, saved |-> saved]

Raised(error, files, calls, log) ==
    [outcome |-> "raised", error |-> error, value |-> <<>>, files |-> files,
     reqs |-> [i \in 1..Len(calls) |-> calls[i].request],
     resps |-> [i \in 1..Len(calls) |-> calls[i].response],
     log |-> log, saved |-> <<>>]

\* the process is stopped (a signal, a full disk) between two saves
Interrupted(files, calls, log, saved) ==
    [outcome |-> "interrupted", error |-> NoError, value |-> <<>>, files |-> files,
     reqs |-> [i \in 1..Len(calls) |-> calls[i].request],
     resps |-> [i \in 1..Len(calls) |-> calls[i].response],
     log |-> log, saved |-> saved]

Saved(file_name, df) == [name |-> file_name, df |-> df]

\* DataFrame(list of dicts, columns=columns): each record's cells, by column
DataFrameOfDicts(dicts, columns) ==
    DataFrame([i \in 1..Len(dicts) |->
                 [j \in 1..Len(columns) |-> dicts[i][columns[j]]]], columns)

(***************************************************************************)
(* get_contributors_statistic                                              *)
(***************************************************************************)
TotalContribution(item) ==
    [commits |-> IntCell(item.total), user |-> StrCell(item.author.login)]

WeeklyContribution(item, week) ==
    [user |-> StrCell(item.author.login),
     week_unix_ts |-> IntCell(week.w),
     date |-> DateFromTimestamp(week.w),
     additions |-> IntCell(week.a),
     deletions |-> IntCell(week.d),
     commits |-> IntCell(week.c)]

TotalContributions(data) == [i \in 1..Len(data) |-> TotalContribution(data[i])]

RECURSIVE WeeklyContributions(_)
WeeklyContributions(data) ==
    IF data = <<>> THEN <<>>
    ELSE [k \in 1..Len(Head(data).weeks) |->
            WeeklyContribution(Head(data), Head(data).weeks[k])]
         \o WeeklyContributions(Tail(data))

TotalContributionsFrame(data) ==
    DataFrameOfDicts(TotalContributions(data), <<"user", "commits">>)

WeeklyContributionsFrame(data) ==
    DataFrameOfDicts(WeeklyContributions(data),
                     <<"user", "week_unix_ts", "date", "additions", "deletions",
                       "commits">>)

\* interrupted: the process is stopped after the first of the two saves
GetContributorsStatistic(c, files, response, interrupted) ==
    IF /\ c.useCache
       /\ IsCacheAvailable(files, TOTAL_CONTRIBUTION_FILE_NAME)
       /\ IsCacheAvailable(files, WEEKLY_CONTRIBUTIONS_FILE_NAME)
    THEN Returned(<<ReadCache(files, TOTAL_CONTRIBUTION_FILE_NAME),
                    ReadCache(files, WEEKLY_CONTRIBUTIONS_FILE_NAME)>>,
                  files, <<>>, <<>>, <<>>)
    ELSE LET call == CallApi(c, PlainPath("stats/contributors"), {}, response)
             total == TotalContributionsFrame(call.data)
             weekly == WeeklyContributionsFrame(call.data)
             files1 == SaveCache(files, total, TOTAL_CONTRIBUTION_FILE_NAME)
             files2 == SaveCache(files1, weekly, WEEKLY_CONTRIBUTIONS_FILE_NAME)
         IN  IF call.error # NoError
             THEN Raised(call.error, files, <<call>>, <<>>)
             ELSE IF interrupted
             THEN Interrupted(files1, <<call>>, <<>>,
                              <<Saved(TOTAL_CONTRIBUTION_FILE_NAME, total)>>)
             ELSE Returned(<<total, weekly>>, files2, <<call>>, <<>>,
                           <<Saved(TOTAL_CONTRIBUTION_FILE_NAME, total),
                             Saved(WEEKLY_CONTRIBUTIONS_FILE_NAME, weekly)>>)

(***************************************************************************)
(* get_code_frequency_statistic                                            *)
(***************************************************************************)
CodeFrequencyFrame(data) ==
    LET df == DataFrame([i \in 1..Len(data) |->
                           [j \in 1..3 |-> IntCell(data[i][j])]],
                        <<"week_unix_ts", "additions", "deletions">>)
    IN  AddColumn(df, "date",
                  [i \in 1..Len(data) |-> DateFromTimestamp(df.rows[i][1].n)])

GetCodeFrequencyStatistic(c, files, response) ==
    IF c.useCache /\ IsCacheAvailable(files, CODE_FREQUENCY_FILE_NAME)
    THEN Returned(<<ReadCache(files, CODE_FREQUENCY_FILE_NAME)>>, files,
                  <<>>, <<>>, <<>>)
    ELSE LET call == CallApi(c, PlainPath("stats/code_frequency"), {}, response)
             code_frequency == CodeFrequencyFrame(call.data)
         IN  IF call.error # NoError
             THEN Raised(call.error, files, <<call>>, <<>>)
             ELSE Returned(<<code_frequency>>,
                           SaveCache(files, code_frequency, CODE_FREQUENCY_FILE_NAME),
                           <<call>>, <<>>,
                           <<Saved(CODE_FREQUENCY_FILE_NAME, code_frequency)>>)

(***************************************************************************)
(* get_commit_activity                                                     *)
(***************************************************************************)
\* the weekday fields read as if days[0] were Monday
CommitActivityRow_MondayFirst(item) ==
    [week_unix_ts |-> IntCell(item.week),
     mon |-> IntCell(DayAt(item, 0)),
     tue |-> IntCell(DayAt(item, 1)),
     wed |-> IntCell(DayAt(item, 2)),
     thu |-> IntCell(DayAt(item, 3)),
     fri |-> IntCell(DayAt(item, 4)),
     sat |-> IntCell(DayAt(item, 5)),
     sun |-> IntCell(DayAt(item, 6))]

CommitActivityRow(item) ==
    [week_unix_ts |-> IntCell(item.week),
     mon |-> IntCell(DayAt(item, 1)),
     tue |-> IntCell(DayAt(item, 2)),
     wed |-> IntCell(DayAt(item, 3)),
     thu |-> IntCell(DayAt(item, 4)),
     fri |-> IntCell(DayAt(item, 5)),
     sat |-> IntCell(DayAt(item, 6)),
     sun |-> IntCell(DayAt(item, 0))]

CommitActivityFrame(data) ==
    LET df == DataFrameOfDicts([i \in 1..Len(data) |-> CommitActivityRow(data[i])],
                               <<"week_unix_ts", "mon", "tue", "wed", "thu", "fri",
                                 "sat", "sun">>)
    IN  AddColumn(df, "week",
                  [i \in 1..Len(data) |-> DateFromTimestamp(df.rows[i][1].n)])

GetCommitActivity(c, files, response) ==
    IF c.useCache /\ IsCacheAvailable(files, COMMIT_ACTIVITY_FILE_NAME)
    THEN Returned(<<ReadCache(files, COMMIT_ACTIVITY_FILE_NAME)>>, files,
                  <<>>, <<>>, <<>>)
    ELSE LET call == CallApi(c, PlainPath("stats/commit_activity"), {}, response)
             commit_activity == CommitActivityFrame(call.data)
         IN  IF call.error # NoError
             THEN Raised(call.error, files, <<call>>, <<>>)
             ELSE Returned(<<commit_activity>>,
                           SaveCache(files, commit_activity, COMMIT_ACTIVITY_FILE_NAME),
                           <<call>>, <<>>,
                           <<Saved(COMMIT_ACTIVITY_FILE_NAME, commit_activity)>>)

(***************************************************************************)
(* get_issues and get_stargazers: the pagination loops.  server[n] is the  *)
(* response of the source to a request for page n.                         *)
(***************************************************************************)
LoopStart(log) == [acc |-> <<>>, calls |-> <<>>, log |-> log, error |-> NoError]

IssueRow(issue) ==
    [id |-> IntCell(issue.id),
     state |-> StrCell(issue.state),
     created_at |-> DateFromIso(issue.created_at)]

\* the loop putting each page before the pages it already has
RECURSIVE IssuesLoop_Prepend(_, _, _, _)
IssuesLoop_Prepend(c, server, page, st) ==
    LET log == Log(c, st.log, ".")
        call == CallApi(c, PagePath("issues", page), {}, server[page])
        st1 == [st EXCEPT !.log = log, !.calls = Append(@, call)]
    IN  IF call.error # NoError THEN [st1 EXCEPT !.error = call.error]
        ELSE IF Len(call.data) = 0 THEN st1
        ELSE IssuesLoop_Prepend(c, server, page + 1,
                                [st1 EXCEPT !.acc = [i \in 1..Len(call.data) |->
                                                       IssueRow(call.data[i])] \o @])

\* the body of 'while (True)', from page on
RECURSIVE IssuesLoop(_, _, _, _)
IssuesLoop(c, server, page, st) ==
    LET log == Log(c, st.log, ".")
        call == CallApi(c, PagePath("issues", page), {}, server[page])
        st1 == [st EXCEPT !.log = log, !.calls = Append(@, call)]
    IN  IF call.error # NoError THEN [st1 EXCEPT !.error = call.error]
        ELSE IF Len(call.data) = 0 THEN st1
        ELSE IssuesLoop(c, server, page + 1,
                        [st1 EXCEPT !.acc = @ \o [i \in 1..Len(call.data) |->
                                                    IssueRow(call.data[i])]])

GetIssues(c, files, server) ==
    IF c.useCache /\ IsCacheAvailable(files, ISSUES_FILE_NAME)
    THEN Returned(<<ReadCache(files, ISSUES_FILE_NAME)>>, files, <<>>, <<>>, <<>>)
    ELSE LET loop == IssuesLoop(c, server, 1,
                                LoopStart(Log(c, <<>>, "Fetching repository issues ")))
             issues == DataFrameOfDicts(loop.acc, <<"id", "state", "created_at">>)
         IN  IF loop.error # NoError
             THEN Raised(loop.error, files, loop.calls, loop.log)
             ELSE Returned(<<issues>>, SaveCache(files, issues, ISSUES_FILE_NAME),
                           loop.calls, Log(c, loop.log, "."),
                           <<Saved(ISSUES_FILE_NAME, issues)>>)

StarAccept == {<<"Accept", "application/vnd.github.v3.star+json">>}

StargazerRow(stargazer) ==
    [user |-> StrCell(stargazer.user.login),
     starred_at |-> DateFromIso(stargazer.starred_at)]

RECURSIVE StargazersLoop(_, _, _, _)
StargazersLoop(c, server, page, st) ==
    LET log == Log(c, st.log, ".")
        call == CallApi(c, PagePath("stargazers", page), StarAccept, server[page])
        st1 == [st EXCEPT !.log = log, !.calls = Append(@, call)]
    IN  IF call.error # NoError THEN [st1 EXCEPT !.error = call.error]
        ELSE IF Len(call.data) = 0 THEN st1
        ELSE StargazersLoop(c, server, page + 1,
                            [st1 EXCEPT !.acc = @ \o [i \in 1..Len(call.data) |->
                                                        StargazerRow(call.data[i])]])

\* get_stargazers saving what it has when a request fails
GetStargazers_SavePartial(c, files, server) ==
    IF c.useCache /\ IsCacheAvailable(files, STARGAZERS_FILE_NAME)
    THEN Returned(<<ReadCache(files, STARGAZERS_FILE_NAME)>>, files, <<>>, <<>>, <<>>)
    ELSE LET loop == StargazersLoop(c, server, 1,
                                    LoopStart(Log(c, <<>>, "Fetching stargazers ")))
             stargazers == DataFrameOfDicts(loop.acc, <<"user", "starred_at">>)
             saved == SaveCache(files, stargazers, STARGAZERS_FILE_NAME)
         IN  IF loop.error # NoError
             THEN Raised(loop.error, saved, loop.calls, loop.log)
             ELSE Returned(<<stargazers>>, saved, loop.calls, Log(c, loop.log, "."),
                           <<Saved(STARGAZERS_FILE_NAME, stargazers)>>)

GetStargazers(c, files, server) ==
    IF c.useCache /\ IsCacheAvailable(files, STARGAZERS_FILE_NAME)
    THEN Returned(<<ReadCache(files, STARGAZERS_FILE_NAME)>>, files, <<>>, <<>>, <<>>)
    ELSE LET loop == StargazersLoop(c, server, 1,
                                    LoopStart(Log(c, <<>>, "Fetching stargazers ")))
             stargazers == DataFrameOfDicts(loop.acc, <<"user", "starred_at">>)
         IN  IF loop.error # NoError
             THEN Raised(loop.error, files, loop.calls, loop.log)
             ELSE Returned(<<stargazers>>,
                           SaveCache(files, stargazers, STARGAZERS_FILE_NAME),
                           loop.calls, Log(c, loop.log, "."),
                           <<Saved(STARGAZERS_FILE_NAME, stargazers)>>)

(***************************************************************************)
(* Construction and delete_cache.                                          *)
(***************************************************************************)
\* the fields __init__ sets
NewDownloader(token, useCache, verbose) ==
    [constructed |-> TRUE, token |-> token, useCache |-> useCache,
     verbose |-> verbose, headers |-> SessionHeaders(token)]

\* the existence check of __init__: session.get(url), then the two log lines
\* or the error
Probe(c, response) ==
    LET call == [request |-> [owner |-> Owner, repo |-> Repo, path |-> PlainPath(""),
                              headers |-> RequestHeaders(c, {})],
                 response |-> response]
        line1 == "The maximum number of requests you are permitted to make per hour: "
                     \o response.limit
        line2 == "The number of requests remaining in the current rate limit window: "
                     \o response.remaining
    IN  IF Ok(response)
        THEN Returned(<<>>, <<>>, <<call>>, Log(c, Log(c, <<>>, line1), line2), <<>>)
        ELSE Raised(RaiseError(response), <<>>, <<call>>, <<>>)

\* makedirs(path) when the directory is missing
MakeDirs(dir) == [dir EXCEPT !.exists = TRUE]

\* rmtree(path)
RmTree(dir) == [exists |-> FALSE, files |-> [f \in FileNames |-> NoFile]]

\* delete_cache without its makedirs
DeleteCache_NoMakedirs(dir) == RmTree(dir)

\* delete_cache
DeleteCache(dir) == MakeDirs(RmTree(dir))

(***************************************************************************)
(* History kept for the properties.                                        *)
(***************************************************************************)
\* the operation before this one, constructions aside, was delete_cache
AfterDelete ==
    \/ last.op = "delete_cache"
    \/ last.op = "__init__" /\ last.afterDelete

Record(op, token, result, cached) ==
    [op |-> op, token |-> token, outcome |-> result.outcome, error |-> result.error,
     value |-> result.value, reqs |-> result.reqs, resps |-> result.resps,
     log |-> result.log, cached |-> cached, afterDelete |-> AfterDelete]

Fetched(old, saved) ==
    [f \in FileNames |->
       IF \E i \in 1..Len(saved) : saved[i].name = f
       THEN [some |-> TRUE,
             df |-> saved[CHOOSE i \in 1..Len(saved) : saved[i].name = f].df]
       ELSE old[f]]

(***************************************************************************)
(* The inputs: the servers a method may meet.                              *)
(***************************************************************************)
\* a paginated source: some non-empty pages, then an empty page or a failure
PagedSources(pages, failures) ==
    UNION { { [n \in 1..k |-> IF n < k THEN first[n] ELSE end] :
                first \in [1..(k - 1) -> {OkResponse(p) : p \in pages}],
                end \in {OkResponse(<<>>)} \cup failures } : k \in 1..MaxPages }

SingleSources(payloads, failures) == {OkResponse(p) : p \in payloads} \cup failures

(***************************************************************************)
(* The actions.  in is the set of inputs the specification draws from.     *)
(***************************************************************************)
Init ==
    /\ client = NoClient
    /\ cache = RmTree([exists |-> FALSE])
    /\ fetched = [f \in FileNames |-> NoTable]
    /\ last = [op |-> "none", token |-> "", outcome |-> "none", error |-> NoError,
               value |-> <<>>, reqs |-> <<>>, resps |-> <<>>, log |-> <<>>,
               cached |-> FALSE, afterDelete |-> FALSE]

Construct(token, useCache, verbose, response) ==
    LET c == NewDownloader(token, useCache, verbose)
        result == Probe(c, response)
    IN  /\ cache' = IF cache.exists THEN cache ELSE MakeDirs(cache)
        /\ client' = IF result.outcome = "returned" THEN c ELSE NoClient
        /\ last' = Record("__init__", token, result, FALSE)
        /\ UNCHANGED fetched

\* Downloader(owner, repo, token, useCacheIfAvailable, verbose)
Downloader_init(in) ==
    \E token \in in.tokens, useCache \in in.useCache, verbose \in in.verbose,
       response \in SingleSources({<<>>}, in.failures) :
        Construct(token, useCache, verbose, response)

\* Visualizer(owner, repo, useCache): the token is the environment's
\* GITHUB_OAUTH_TOKEN (unset reads as no token) and nothing is printed
Visualizer_init(in) ==
    \E token \in in.tokens, useCache \in in.useCache,
       response \in SingleSources({<<>>}, in.failures) :
        Construct(token, useCache, FALSE, response)

delete_cache ==
    /\ client.constructed
    /\ cache' = DeleteCache(cache)
    /\ fetched' = [f \in FileNames |-> NoTable]
    /\ last' = [op |-> "delete_cache", token |-> client.token, outcome |-> "returned",
                error |-> NoError, value |-> <<>>, reqs |-> <<>>, resps |-> <<>>,
                log |-> <<>>, cached |-> FALSE, afterDelete |-> FALSE]
    /\ UNCHANGED client

Call(method, result) ==
    /\ client.constructed
    /\ cache' = [cache EXCEPT !.files = result.files]
    /\ fetched' = Fetched(fetched, result.saved)
    /\ last' = Record(method, client.token, result,
                      \A f \in DatasetFiles(method) : cache.files[f].present)
    /\ UNCHANGED client

get_contributors_statistic(in) ==
    \E response \in SingleSources(in.contributors, in.failures),
       interrupted \in in.interrupted :
        Call("get_contributors_statistic",
             GetContributorsStatistic(client, cache.files, response, interrupted))

get_code_frequency_statistic(in) ==
    \E response \in SingleSources(in.code_frequency, in.failures) :
        Call("get_code_frequency_statistic",
             GetCodeFrequencyStatistic(client, cache.files, response))

get_issues(in) ==
    \E server \in PagedSources(in.issues, in.failures) :
        Call("get_issues", GetIssues(client, cache.files, server))

get_commit_activity(in) ==
    \E response \in SingleSources(in.commit_activity, in.failures) :
        Call("get_commit_activity", GetCommitActivity(client, cache.files, response))

get_stargazers(in) ==
    \E server \in PagedSources(in.stargazers, in.failures) :
        Call("get_stargazers", GetStargazers(client, cache.files, server))

(***************************************************************************)
(* Visualizer.lines_over_time, up to the parsing of the dates.             *)
(***************************************************************************)
\* datetime.strptime(date, '%Y-%m-%d') for each date of the table: a TypeError
\* when a date is not a str; the method returns nothing
LinesOverTime(result) ==
    IF result.outcome # "returned" THEN result
    ELSE IF \E i \in 1..Len(result.value[1].rows) :
                CellOf(result.value[1], i, "date").t # "str"
    THEN [result EXCEPT !.outcome = "raised", !.value = <<>>,
                        !.error = Error("TypeError",
                                        <<"strptime() argument 1 must be str, not datetime.date">>)]
    ELSE [result EXCEPT !.value = <<>>]

lines_over_time(in) ==
    \E response \in SingleSources(in.code_frequency, in.failures) :
        LET result == LinesOverTime(GetCodeFrequencyStatistic(client, cache.files,
                                                              response))
        IN  /\ client.constructed
            /\ cache' = [cache EXCEPT !.files = result.files]
            /\ fetched' = Fetched(fetched, result.saved)
            /\ last' = Record("lines_over_time", client.token, result,
                              cache.files[CODE_FREQUENCY_FILE_NAME].present)
            /\ UNCHANGED client

Tokens == {"", "ghp_0123"}

ServerError == Response(500, <<>>, "Server Error")

(***************************************************************************)
(* Spec: the cache.  Every method, with and without caching, failing       *)
(* requests and the interruption; one client configuration otherwise.      *)
(***************************************************************************)
CacheInputs ==
    [tokens |-> {""}, useCache |-> BOOLEAN, verbose |-> {FALSE},
     failures |-> {ServerError},
     contributors |-> {<<>>, Contributors1},
     code_frequency |-> {CodeFrequency1, CodeFrequency2},
     commit_activity |-> {CommitActivity1},
     issues |-> {IssuePage1},
     stargazers |-> {StarPage1},
     interrupted |-> BOOLEAN]

Next ==
    \/ Downloader_init(CacheInputs)
    \/ Visualizer_init(CacheInputs)
    \/ delete_cache
    \/ get_contributors_statistic(CacheInputs)
    \/ get_code_frequency_statistic(CacheInputs)
    \/ get_issues(CacheInputs)
    \/ get_commit_activity(CacheInputs)
    \/ get_stargazers(CacheInputs)

Spec == Init /\ [][Next]_vars

(***************************************************************************)
(* SpecClient: the requests.  Every token and every failure status, every  *)
(* method, always fetching; one payload per endpoint.                      *)
(***************************************************************************)
Failures ==
    { Response(s, <<>>, "Problems parsing JSON") : s \in FailureStatuses }
        \cup {ServerError}

ClientInputs ==
    [tokens |-> Tokens, useCache |-> {FALSE}, verbose |-> {FALSE},
     failures |-> Failures,
     contributors |-> {Contributors2},
     code_frequency |-> {CodeFrequency2},
     commit_activity |-> {CommitActivity2},
     issues |-> {IssuePage2},
     stargazers |-> {StarPage2},
     interrupted |-> {FALSE}]

NextClient ==
    \/ Downloader_init(ClientInputs)
    \/ Visualizer_init(ClientInputs)
    \/ delete_cache
    \/ get_contributors_statistic(ClientInputs)
    \/ get_code_frequency_statistic(ClientInputs)
    \/ get_issues(ClientInputs)
    \/ get_commit_activity(ClientInputs)
    \/ get_stargazers(ClientInputs)

SpecClient == Init /\ [][NextClient]_vars

(***************************************************************************)
(* SpecLog: the progress output.  Both verbosities, with and without       *)
(* caching, every method; one payload per endpoint.                        *)
(***************************************************************************)
LogInputs ==
    [tokens |-> {""}, useCache |-> BOOLEAN, verbose |-> BOOLEAN,
     failures |-> {ServerError},
     contributors |-> {Contributors2},
     code_frequency |-> {CodeFrequency2},
     commit_activity |-> {CommitActivity2},
     issues |-> {IssuePage2},
     stargazers |-> {StarPage2},
     interrupted |-> {FALSE}]

NextLog ==
    \/ Downloader_init(LogInputs)
    \/ Visualizer_init(LogInputs)
    \/ delete_cache
    \/ get_contributors_statistic(LogInputs)
    \/ get_code_frequency_statistic(LogInputs)
    \/ get_issues(LogInputs)
    \/ get_commit_activity(LogInputs)
    \/ get_stargazers(LogInputs)

SpecLog == Init /\ [][NextLog]_vars

(***************************************************************************)
(* SpecPaged: the pagination loops, over sources of several pages.         *)
(***************************************************************************)
PagedInputs ==
    [tokens |-> {""}, useCache |-> BOOLEAN, verbose |-> {FALSE},
     failures |-> {ServerError},
     contributors |-> {}, code_frequency |-> {}, commit_activity |-> {},
     issues |-> {IssuePage1, IssuePage2},
     stargazers |-> {StarPage1, StarPage2},
     interrupted |-> {FALSE}]

NextPaged ==
    \/ Downloader_init(PagedInputs)
    \/ delete_cache
    \/ get_issues(PagedInputs)
    \/ get_stargazers(PagedInputs)

SpecPaged == Init /\ [][NextPaged]_vars

(***************************************************************************)
(* SpecData: the six tables, over several payloads per endpoint.           *)
(***************************************************************************)
DataInputs ==
    [tokens |-> {""}, useCache |-> BOOLEAN, verbose |-> {FALSE},
     failures |-> {},
     contributors |-> {<<>>, Contributors1, Contributors2},
     code_frequency |-> {CodeFrequency1, CodeFrequency2},
     commit_activity |-> {CommitActivity1, CommitActivity2},
     issues |-> {IssuePage1},
     stargazers |-> {StarPage1},
     interrupted |-> {FALSE}]

NextData ==
    \/ Downloader_init(DataInputs)
    \/ Visualizer_init(DataInputs)
    \/ delete_cache
    \/ get_contributors_statistic(DataInputs)
    \/ get_code_frequency_statistic(DataInputs)
    \/ get_issues(DataInputs)
    \/ get_commit_activity(DataInputs)
    \/ get_stargazers(DataInputs)
    \/ lines_over_time(DataInputs)

SpecData == Init /\ [][NextData]_vars

(***************************************************************************)
(* Properties.                                                             *)
(***************************************************************************)
IsCall == last.op \in Methods

Fetching == IsCall /\ last.reqs # <<>>

CacheHit == IsCall /\ last.reqs = <<>>

\* the files of the last call's dataset, in the order of the tables returned
ValueFiles ==
    IF last.op = "get_contributors_statistic"
    THEN <<TOTAL_CONTRIBUTION_FILE_NAME, WEEKLY_CONTRIBUTIONS_FILE_NAME>>
    ELSE <<CHOOSE f \in FileNames : f \in DatasetFiles(last.op)>>

\* C1: a call of a data method issues no request if and only if caching is
\* enabled and every cache file of its dataset existed when it was called; in
\* every other case it issues at least one request and, when it returns, each
\* cache file of the dataset holds the table it returned, as written
CacheHitIffCached ==
    IsCall =>
        /\ (last.reqs = <<>>) <=> (client.useCache /\ last.cached)
        /\ ~(client.useCache /\ last.cached) =>
               /\ Len(last.reqs) >= 1
               /\ last.outcome = "returned" =>
                      /\ Len(last.value) = Len(ValueFiles)
                      /\ \A i \in 1..Len(ValueFiles) :
                             cache.files[ValueFiles[i]] = ToCsv(last.value[i])

\* a fetch made although the files were there (caching disabled): it rewrote them
CacheHitIffCached_Witness ==
    /\ last.op = "get_contributors_statistic"
    /\ last.cached
    /\ ~client.useCache
    /\ last.outcome = "returned"
    /\ Len(last.reqs) = 1
    /\ Len(last.value[2].rows) > 0

\* the error kind each failure status stands for
KindOfStatus(status) ==
    CASE status = 403 -> "ApiRateLimitError"
      [] status = 404 -> "NotFoundError"
      [] status = 401 -> "BadCredentialsError"
      [] OTHER -> "Exception"

Contains(message, part) == \E i \in 1..Len(message) : message[i] = part

\* the failing responses among those the last operation received
FailedAt == { i \in 1..Len(last.resps) : ~Ok(last.resps[i]) }

\* C2: for every request of the client (the probe of the construction, every
\* data request, every page), a non-success response raises the error kind of
\* its status: 403 the rate-limit error, 404 the not-found error whose message
\* holds the owner and the repository, 401 the bad-credentials error, any
\* other status a generic error whose message is the body's message field; and
\* when every response is a success no error is raised
ErrorKindByStatus ==
    /\ \A i \in FailedAt :
          /\ last.outcome = "raised"
          /\ last.error.kind = KindOfStatus(last.resps[i].status)
          /\ last.resps[i].status = 404 =>
                 Contains(last.error.message, Owner) /\ Contains(last.error.message, Repo)
          /\ last.resps[i].status \notin {401, 403, 404} =>
                 last.error.message = <<last.resps[i].message>>
    /\ FailedAt = {} => last.outcome # "raised" /\ last.error = NoError

\* bad credentials met on the second page of the issues
ErrorKindByStatus_Witness ==
    /\ last.op = "get_issues"
    /\ Len(last.reqs) = 2
    /\ last.resps[2].status = 401
    /\ last.error.kind = "BadCredentialsError"

\* C3: with a non-empty token T given at construction, the probe and every
\* later request of the client carry the header Authorization with the value
\* 'token ' followed by T; with no token, no request carries that header
TokenInEveryRequest ==
    \A i \in 1..Len(last.reqs) :
        LET authorization == { h \in last.reqs[i].headers : h[1] = "Authorization" }
        IN  IF last.token # ""
            THEN authorization = {<<"Authorization", "token " \o last.token>>}
            ELSE authorization = {}

\* the items of the first n responses, page after page
RECURSIVE ItemsOfPages(_, _)
ItemsOfPages(resps, n) ==
    IF n = 0 THEN <<>> ELSE ItemsOfPages(resps, n - 1) \o resps[n].data

\* the record an item of a page is to give
RecordOfItem(op, item) ==
    IF op = "get_issues"
    THEN <<IntCell(item.id), StrCell(item.state), DateFromIso(item.created_at)>>
    ELSE <<StrCell(item.user.login), DateFromIso(item.starred_at)>>

\* C4: get_issues and get_stargazers, on a cache miss that returns, have
\* issued k requests, for the pages 1, 2, .., k in this order and with
\* per_page=100, where pages 1..k-1 were not empty and page k is the first
\* empty one; the table returned holds the items of pages 1..k-1, in page
\* order then in-page order, and nothing else
PaginationToFirstEmptyPage ==
    (last.op \in {"get_issues", "get_stargazers"} /\ Fetching
         /\ last.outcome = "returned") =>
        LET k == Len(last.reqs)
            items == ItemsOfPages(last.resps, k - 1)
            endpoint == IF last.op = "get_issues" THEN "issues" ELSE "stargazers"
        IN  /\ Len(last.resps) = k
            /\ \A n \in 1..k :
                   last.reqs[n].path =
                       [endpoint |-> endpoint, per_page |-> 100, page |-> n]
            /\ \A n \in 1..(k - 1) : Len(last.resps[n].data) > 0
            /\ last.resps[k].data = <<>>
            /\ Len(last.value) = 1
            /\ last.value[1].rows =
                   [n \in 1..Len(items) |-> RecordOfItem(last.op, items[n])]

\* pages of 2, 1 and 0 issues: 3 requests and 3 records, the two of page 1 first
PaginationToFirstEmptyPage_Witness ==
    /\ last.op = "get_issues"
    /\ last.outcome = "returned"
    /\ Len(last.reqs) = 3
    /\ last.resps[1].data = IssuePage1
    /\ last.resps[2].data = IssuePage2
    /\ Len(last.value[1].rows) = 3

\* C5: after delete_cache the cache directory exists and holds none of the six
\* files; and the next call of a data method, caching enabled or not, issues a
\* request and, when it returns, has written the file(s) of its dataset again
DeleteThenRefetch ==
    /\ last.op = "delete_cache" =>
           cache.exists /\ \A f \in FileNames : ~cache.files[f].present
    /\ (IsCall /\ last.afterDelete) =>
           /\ Len(last.reqs) >= 1
           /\ last.outcome = "returned" =>
                  \A f \in DatasetFiles(last.op) : cache.files[f].present

\* the first call after delete_cache, of a client that uses the cache
DeleteThenRefetch_Witness ==
    /\ last.op = "get_contributors_statistic"
    /\ last.afterDelete
    /\ client.useCache
    /\ last.outcome = "returned"
    /\ cache.files[TOTAL_CONTRIBUTION_FILE_NAME].present
    /\ cache.files[WEEKLY_CONTRIBUTIONS_FILE_NAME].present
    /\ ~cache.files[ISSUES_FILE_NAME].present

\* the two files of the contributor statistics, as one fetch of data writes them
ContributorFiles(data) ==
    [total |-> ToCsv(TotalContributionsFrame(data)),
     weekly |-> ToCsv(WeeklyContributionsFrame(data))]

\* C6: in every state of the cache directory each dataset is entirely absent
\* or entirely present: total_contributions and weekly_contributions are both
\* absent, or both present and of one fetch; a file of a paginated dataset
\* holds the records of every page of one source
NoPartialDataset ==
    /\ cache.files[TOTAL_CONTRIBUTION_FILE_NAME].present
           <=> cache.files[WEEKLY_CONTRIBUTIONS_FILE_NAME].present
    /\ cache.files[TOTAL_CONTRIBUTION_FILE_NAME].present =>
           \E data \in CacheInputs.contributors :
               /\ cache.files[TOTAL_CONTRIBUTION_FILE_NAME] = ContributorFiles(data).total
               /\ cache.files[WEEKLY_CONTRIBUTIONS_FILE_NAME] = ContributorFiles(data).weekly
    /\ \A f \in {ISSUES_FILE_NAME, STARGAZERS_FILE_NAME} :
           cache.files[f].present =>
               \E server \in PagedSources(IF f = ISSUES_FILE_NAME
                                          THEN CacheInputs.issues
                                          ELSE CacheInputs.stargazers, {}) :
                   LET items == ItemsOfPages(server, Len(server) - 1)
                       op == IF f = ISSUES_FILE_NAME THEN "get_issues"
                             ELSE "get_stargazers"
                       columns == IF f = ISSUES_FILE_NAME
                                  THEN <<"id", "state", "created_at">>
                                  ELSE <<"user", "starred_at">>
                   IN  cache.files[f] =
                           ToCsv(DataFrame([n \in 1..Len(items) |->
                                              RecordOfItem(op, items[n])], columns))

\* C9: when a request of a data method gets a non-success response, that
\* request is the last of the call (no retry, no further page), the call
\* raises, returns no table, and leaves every cache file as it was
FailureIsTerminal ==
    [][ (last'.op \in Methods /\ \E i \in 1..Len(last'.resps) : ~Ok(last'.resps[i])) =>
            /\ \A i \in 1..Len(last'.resps) :
                   ~Ok(last'.resps[i]) => i = Len(last'.resps)
            /\ \A i, j \in 1..Len(last'.reqs) : i # j => last'.reqs[i] # last'.reqs[j]
            /\ Len(last'.reqs) = Len(last'.resps)
            /\ last'.outcome = "raised"
            /\ last'.error # NoError
            /\ last'.value = <<>>
            /\ cache' = cache ]_vars

\* a failure on the second page of the stargazers, over a cached file
FailureIsTerminal_Witness ==
    /\ last.op = "get_stargazers"
    /\ last.outcome = "raised"
    /\ Len(last.reqs) = 2
    /\ ~Ok(last.resps[2])
    /\ cache.files[STARGAZERS_FILE_NAME].present
    /\ Len(cache.files[STARGAZERS_FILE_NAME].lines) > 0

\* C7: the table a data method returns on a call that reads the cache is
\* equal, in every cell (its type included) and in the order of the records,
\* to the table the method returned on the call that fetched it and wrote the
\* cache, for each of the six files
CacheRoundTrip ==
    (CacheHit /\ last.outcome = "returned") =>
        \A i \in 1..Len(ValueFiles) :
            /\ fetched[ValueFiles[i]].some
            /\ last.value[i] = fetched[ValueFiles[i]].df

\* C8: get_commit_activity on a cache miss gives, for the API's entries in their
\* order, one record each with mon..sat the entry's days 1..6, sun its day 0
\* (Sunday) and week_unix_ts its week
WeekdayRemap ==
    (last.op = "get_commit_activity" /\ Fetching /\ last.outcome = "returned") =>
        LET data == last.resps[1].data
            df == last.value[1]
        IN  /\ Len(df.rows) = Len(data)
            /\ \A i \in 1..Len(data) :
                   /\ CellOf(df, i, "week_unix_ts") = IntCell(data[i].week)
                   /\ CellOf(df, i, "sun") = IntCell(data[i].days[1])
                   /\ CellOf(df, i, "mon") = IntCell(data[i].days[2])
                   /\ CellOf(df, i, "tue") = IntCell(data[i].days[3])
                   /\ CellOf(df, i, "wed") = IntCell(data[i].days[4])
                   /\ CellOf(df, i, "thu") = IntCell(data[i].days[5])
                   /\ CellOf(df, i, "fri") = IntCell(data[i].days[6])
                   /\ CellOf(df, i, "sat") = IntCell(data[i].days[7])

\* the entry of days [1, 2, 3, 4, 5, 6, 7]: sun = 1 and mon = 2
WeekdayRemap_Witness ==
    /\ last.op = "get_commit_activity"
    /\ last.outcome = "returned"
    /\ Len(last.reqs) = 1
    /\ last.resps[1].data = CommitActivity1
    /\ CellOf(last.value[1], 1, "sun") = IntCell(1)
    /\ CellOf(last.value[1], 1, "mon") = IntCell(2)

\* the number of '.' markers the last operation printed
Markers == Cardinality({ i \in 1..Len(last.log) : last.log[i] = "." })

Paginated == last.op \in {"get_issues", "get_stargazers"}

\* C10, as stated: a verbose get_issues or get_stargazers that fetches prints
\* as many '.' markers as it issued page requests; not verbose, it prints none;
\* the three other data methods print none
MarkerPerRequest ==
    IsCall => Markers = IF client.verbose /\ Paginated THEN Len(last.reqs) ELSE 0

\* C10, amended: a verbose get_issues or get_stargazers that fetches prints one
\* '.' before each page request and one more once the loop has ended at the
\* empty page: a fetch that returns prints one marker more than its requests,
\* a fetch that a request's error ends prints as many as its requests; not
\* verbose, or reading the cache, it prints none; the three other data methods
\* print none
MarkerPerRequestAndOneAtTheEnd ==
    IsCall =>
        Markers = IF client.verbose /\ Paginated /\ Fetching
                  THEN Len(last.reqs) + (IF last.outcome = "returned" THEN 1 ELSE 0)
                  ELSE 0

\* a verbose fetch of the issues that returns after 3 requests: 4 markers
MarkerPerRequestAndOneAtTheEnd_Witness ==
    /\ last.op = "get_issues"
    /\ client.verbose
    /\ last.outcome = "returned"
    /\ Len(last.reqs) = 3
    /\ Markers = 4

=============================================================================
